---- MODULE Spec2Model ----
(***************************************************************************)
(* Model of the image aspect-ratio cropper (meraj-dev12/ratio-converter).  *)
(*                                                                         *)
(* Two variants of the application are modelled:                           *)
(*   - src/App.tsx              the rotation-aware app with smart crop     *)
(*   - src/unnamed/part_000     the basic app (no rotation, no smart crop) *)
(* together with the suggestion client src/unnamed/part_002 (lib/gemini).  *)
(*                                                                         *)
(* JavaScript numbers are modelled as exact rationals [n, d] in lowest     *)
(* terms; IEEE-754 rounding is not modelled.                               *)
(***************************************************************************)
EXTENDS Integers, Sequences, FiniteSets, TLC

\* null / undefined of a record-valued slot (crop, file, image, canvas, number)
NULL == [null |-> TRUE]
\* null of a string-valued slot (error message, data URL, cached client)
NoString == "null"

(***************************************************************************)
(* Exact rational arithmetic (stands for JavaScript number arithmetic).    *)
(***************************************************************************)
Abs(i) == IF i < 0 THEN -i ELSE i

RECURSIVE Gcd(_, _)
Gcd(a, b) == IF b = 0 THEN a ELSE Gcd(b, a % b)

Rat(num, den) ==
    LET s == IF den < 0 THEN -1 ELSE 1
        g == Gcd(Abs(num), Abs(den))
    IN  [n |-> (s * num) \div g, d |-> (s * den) \div g]

R(i) == [n |-> i, d |-> 1]
RAdd(a, b) == Rat(a.n * b.d + b.n * a.d, a.d * b.d)
RSub(a, b) == Rat(a.n * b.d - b.n * a.d, a.d * b.d)
RMul(a, b) == Rat(a.n * b.n, a.d * b.d)
RDiv(a, b) == Rat(a.n * b.d, a.d * b.n)
RLe(a, b) == a.n * b.d <= b.n * a.d
RLt(a, b) == a.n * b.d < b.n * a.d
RGt(a, b) == RLt(b, a)
RMax(a, b) == IF RLt(a, b) THEN b ELSE a
RMin(a, b) == IF RLt(b, a) THEN b ELSE a
RIsZero(a) == a.n = 0
\* Math.floor
Floor(a) == a.n \div a.d

Zero == R(0)
Hundred == R(100)

(***************************************************************************)
(* RATIOS (src/App.tsx:16-25, src/unnamed/part_000:14-23).                 *)
(***************************************************************************)
RATIOS ==
    << [label |-> "16:9",   value |-> Rat(16, 9)],
       [label |-> "4:3",    value |-> Rat(4, 3)],
       [label |-> "1:1",    value |-> Rat(1, 1)],
       [label |-> "3:2",    value |-> Rat(3, 2)],
       [label |-> "5:4",    value |-> Rat(5, 4)],
       [label |-> "9:16",   value |-> Rat(9, 16)],
       [label |-> "1.85:1", value |-> Rat(185, 100)],
       [label |-> "2.35:1", value |-> Rat(235, 100)] >>

RatioSet == { RATIOS[i] : i \in 1..Len(RATIOS) }

\* The ratios the user picks in the selector, in the order they are tried:
\* the first MaxPicked entries of PickOrder (indices into RATIOS).
MaxPicked == 2
PickOrder == << 1, 6, 3, 8, 2, 4, 5, 7 >>
PickedRatios == { RATIOS[PickOrder[i]] : i \in 1..(IF MaxPicked < 8 THEN MaxPicked ELSE 8) }

(***************************************************************************)
(* react-image-crop helpers used by the handlers.  A crop is a record      *)
(* [unit, x, y, width, height]; the container is the displayed image.      *)
(***************************************************************************)
MkCrop(u, x, y, w, h) == [unit |-> u, x |-> x, y |-> y, width |-> w, height |-> h]

convertToPixelCrop(c, cw, ch) ==
    IF c.unit = "px" THEN c
    ELSE MkCrop("px",
                RDiv(RMul(c.x, R(cw)), Hundred),
                RDiv(RMul(c.y, R(ch)), Hundred),
                RDiv(RMul(c.width, R(cw)), Hundred),
                RDiv(RMul(c.height, R(ch)), Hundred))

convertToPercentCrop(c, cw, ch) ==
    IF c.unit = "%" THEN c
    ELSE MkCrop("%",
                RMul(RDiv(c.x, R(cw)), Hundred),
                RMul(RDiv(c.y, R(ch)), Hundred),
                RMul(RDiv(c.width, R(cw)), Hundred),
                RMul(RDiv(c.height, R(ch)), Hundred))

\* ReactCrop.componentDidUpdate: when the crop prop goes from undefined to a
\* crop, the widget calls onComplete with the pixel form of the new crop, and
\* both apps store that as the committed crop; otherwise the committed crop
\* stays what the handler stored.
componentDidUpdate(prevCrop, newCrop, committed, img) ==
    IF prevCrop = NULL /\ newCrop # NULL
       THEN convertToPixelCrop(newCrop, img.width, img.height)
       ELSE committed

\* The steps of makeAspectCrop on the pixel form p of the crop c it was given.
\* if (crop.width) pixelCrop.height = pixelCrop.width / aspect
followWidth(p, c, aspect) ==
    IF ~RIsZero(c.width) THEN [p EXCEPT !.height = RDiv(p.width, aspect)] ELSE p

\* if (crop.height) pixelCrop.width = pixelCrop.height * aspect
followHeight(p, c, aspect) ==
    IF ~RIsZero(c.height) THEN [p EXCEPT !.width = RMul(p.height, aspect)] ELSE p

\* if (pixelCrop.y + pixelCrop.height > containerHeight) { ... }
clampToHeight(p, aspect, ch) ==
    IF RGt(RAdd(p.y, p.height), R(ch))
       THEN [p EXCEPT !.height = RSub(R(ch), p.y),
                      !.width = RMul(RSub(R(ch), p.y), aspect)]
       ELSE p

\* if (pixelCrop.x + pixelCrop.width > containerWidth) { ... }
clampToWidth(p, aspect, cw) ==
    IF RGt(RAdd(p.x, p.width), R(cw))
       THEN [p EXCEPT !.width = RSub(R(cw), p.x),
                      !.height = RDiv(RSub(R(cw), p.x), aspect)]
       ELSE p

\* the result is returned in the unit of the crop that was passed in
inUnitOf(c, p, cw, ch) ==
    IF c.unit = "%" THEN convertToPercentCrop(p, cw, ch) ELSE p

\* makeAspectCrop(crop, aspect, containerWidth, containerHeight): missing
\* fields default to 0; the height follows the width (and the width the
\* height) when given and non-zero; the result is clamped first to the
\* container's height, then to its width, keeping the aspect.
makeAspectCrop(c, aspect, cw, ch) ==
    inUnitOf(c,
             clampToWidth(
                 clampToHeight(
                     followHeight(
                         followWidth(convertToPixelCrop(c, cw, ch), c, aspect),
                         c, aspect),
                     aspect, ch),
                 aspect, cw),
             cw, ch)

\* the centered pixel crop
centered(p, cw, ch) ==
    [p EXCEPT !.x = RDiv(RSub(R(cw), p.width), R(2)),
              !.y = RDiv(RSub(R(ch), p.height), R(2))]

\* centerCrop(crop, containerWidth, containerHeight)
centerCrop(c, cw, ch) ==
    inUnitOf(c, centered(convertToPixelCrop(c, cw, ch), cw, ch), cw, ch)

\* mutant: the seed crop given in pixels instead of percent
Width90Px == MkCrop("px", Zero, Zero, R(90), Zero)

\* { unit: '%', width: 90 }
Width90 == MkCrop("%", Zero, Zero, R(90), Zero)

(***************************************************************************)
(* Inputs: the files a user can pick, the images they decode to            *)
(* (displayed width/height and natural width/height), the responses of     *)
(* the suggestion service.                                                 *)
(***************************************************************************)
MkImg(w, h, nw, nh) == [width |-> w, height |-> h, naturalWidth |-> nw, naturalHeight |-> nh]

\* File.type is modelled as <<type, subtype>>; startsWith('image/') tests the type.
Files ==
    { [name |-> "wide.png",  type |-> <<"image", "png">>,  img |-> MkImg(1000, 500, 1000, 500)],
      [name |-> "strip.png", type |-> <<"image", "png">>,  img |-> MkImg(300, 100, 1000, 333)],
      [name |-> "notes.txt", type |-> <<"text", "plain">>, img |-> NULL] }

startsWithImage(type) == type[1] = "image"

\* window.devicePixelRatio values
PixelRatios == { R(2) }

\* Parsed JSON bodies of the suggestion response; NULL is an absent field.
MkData(x, y, w, h) == [x |-> x, y |-> y, width |-> w, height |-> h]

SuggestData ==
    { MkData(R(40), R(40), R(80), R(80)),
      MkData(R(10), R(10), R(30), NULL) }

Responses ==
    { [kind |-> "readError", data |-> NULL],
      [kind |-> "transportError", data |-> NULL],
      [kind |-> "invalidJson", data |-> NULL] }
    \cup { [kind |-> "json", data |-> d] : d \in SuggestData }

(***************************************************************************)
(* src/unnamed/part_002 (lib/gemini): getAiInstance, getSmartCrop.         *)
(***************************************************************************)
NoResult == [kind |-> "none", tag |-> "none", message |-> NoString, value |-> NULL]
\* what a call settled with, together with the kind of outcome that caused it
Settled(kind, res) ==
    [kind |-> kind, tag |-> res.tag, message |-> res.message, value |-> res.value]
Throw(msg) == [tag |-> "throw", message |-> msg, value |-> NULL]
Return(v) == [tag |-> "return", message |-> NoString, value |-> v]

\* getAiInstance: the outcome for the cached instance `ai` and the env key.
getAiInstance(ai, key) ==
    IF ai = NoString
       THEN IF key = NoString THEN [ai |-> NoString, error |-> "API_KEY_NOT_CONFIGURED"]
                              ELSE [ai |-> "GoogleGenAI", error |-> NoString]
       ELSE [ai |-> ai, error |-> NoString]

\* lines 85-93: the region built from a parsed body with all four fields
clampRegion(data) ==
    MkCrop("%",
           RMax(Zero, data.x),
           RMax(Zero, data.y),
           RMin(RSub(Hundred, RMax(Zero, data.x)), data.width),
           RMin(RSub(Hundred, RMax(Zero, data.y)), data.height))

\* getSmartCrop: aiError is what getAiInstance threw (or NULL), resp the
\* outcome of reading the file and calling generateContent.
getSmartCrop(aiError, resp) ==
    IF aiError # NoString THEN Throw(aiError)
    ELSE IF resp.kind = "readError" THEN Throw("Failed to read file")
    ELSE IF resp.kind = "transportError" THEN Return(NULL)
    ELSE IF resp.kind = "emptyText" THEN Return(NULL)
    ELSE IF resp.kind = "noJsonObject" THEN Return(NULL)
    ELSE IF resp.kind = "invalidJson" THEN Return(NULL)
    ELSE IF /\ resp.data.x # NULL /\ resp.data.y # NULL
            /\ resp.data.width # NULL /\ resp.data.height # NULL
         THEN Return(clampRegion(resp.data))
    ELSE Return(NULL)

(***************************************************************************)
(* src/App.tsx: pure helpers of the rotation-aware app.                    *)
(***************************************************************************)
isRotated(currentRotation) == currentRotation = 90 \/ currentRotation = 270

\* mutant: the vertical fields are scaled by the width
pixelToPercentByWidth(pixelCrop, width, height) ==
    MkCrop("px",
           RMul(RDiv(pixelCrop.x, Hundred), R(width)),
           RMul(RDiv(pixelCrop.y, Hundred), R(width)),
           RMul(RDiv(pixelCrop.width, Hundred), R(width)),
           RMul(RDiv(pixelCrop.height, Hundred), R(width)))

pixelToPercent(pixelCrop, width, height) ==
    MkCrop("px",
           RMul(RDiv(pixelCrop.x, Hundred), R(width)),
           RMul(RDiv(pixelCrop.y, Hundred), R(height)),
           RMul(RDiv(pixelCrop.width, Hundred), R(width)),
           RMul(RDiv(pixelCrop.height, Hundred), R(height)))

\* mutant: height/width instead of width/height
loadAspectInverted(ratio, rot, width, height) ==
    RDiv(IF isRotated(rot) THEN RDiv(R(height), R(width)) ELSE R(1), ratio.value)

\* the aspect onImageLoad passes to makeAspectCrop (line 131)
loadAspect(ratio, rot, width, height) ==
    RDiv(ratio.value, IF isRotated(rot) THEN RDiv(R(height), R(width)) ELSE R(1))

\* the percent crop computed by onImageLoad (lines 128-137)
loadCrop(ratio, rot, width, height) ==
    centerCrop(makeAspectCrop(Width90, loadAspect(ratio, rot, width, height), width, height),
               width, height)

\* the aspect of updateCropForRatio (line 208) and handleSmartCrop (line 238)
rotatedAspect(ratio, rot) ==
    IF isRotated(rot) THEN RDiv(R(1), ratio.value) ELSE ratio.value

\* the percent crop computed by updateCropForRatio (lines 209-213)
ratioCrop(ratio, rot, width, height) ==
    centerCrop(makeAspectCrop(Width90, rotatedAspect(ratio, rot), width, height),
               width, height)

\* the percent crop handleSmartCrop builds from a suggestion (lines 242-243)
smartCrop(smartCropData, ratio, rot, width, height) ==
    centerCrop(makeAspectCrop(smartCropData, rotatedAspect(ratio, rot), width, height),
               width, height)

\* the message handleSmartCrop records when no suggestion is applied
\* (line 248 for a null result, lines 252-256 for an exception)
failureMessage(res) ==
    IF res.tag = "return"
       THEN "Could not determine a smart crop region."
       ELSE IF res.message = "API_KEY_NOT_CONFIGURED"
               THEN "AI Smart Crop is unavailable: API Key not configured."
               ELSE "AI Smart Crop failed. Please try again."

\* getAspectRatio (lines 262-266): the aspect handed to the crop widget
getAspectRatio(img, ratio, rot) ==
    IF img = NULL THEN ratio.value
    ELSE IF isRotated(rot)
            THEN RMul(ratio.value, RDiv(R(img.width), R(img.height)))
            ELSE ratio.value

(***************************************************************************)
(* The preview canvas and the render effects.                              *)
(***************************************************************************)
\* a freshly mounted <canvas>: 300x150, nothing drawn
NewCanvas == [width |-> 300, height |-> 150, drawn |-> NULL]

\* mutant: the canvas is not turned for 90 and 270 degrees
renderEffectNoSwap(cc, rot, img, cv, dpr) ==
    IF cc = NULL \/ cv = NULL \/ img = NULL
       THEN [canvas |-> cv, did |-> "skipped"]
    ELSE
      LET scaleX == RDiv(R(img.naturalWidth), R(img.width))
          scaleY == RDiv(R(img.naturalHeight), R(img.height))
          cropWidth == RMul(cc.width, scaleX)
          cropHeight == RMul(cc.height, scaleY)
      IN  IF RLe(cropWidth, Zero) \/ RLe(cropHeight, Zero)
             THEN [canvas |-> cv, did |-> "skipped"]
             ELSE [canvas |-> [width |-> Floor(RMul(cropWidth, dpr)),
                               height |-> Floor(RMul(cropHeight, dpr)),
                               drawn |-> [sx |-> RMul(cc.x, scaleX), sy |-> RMul(cc.y, scaleY),
                                          sw |-> cropWidth, sh |-> cropHeight,
                                          rotate |-> rot]],
                   did |-> "drawn"]

\* src/App.tsx lines 42-94.  Returns the canvas afterwards and what the
\* effect did: "skipped" (early return) or "drawn" (drawImage called).
renderEffect(cc, rot, img, cv, dpr) ==
    IF cc = NULL \/ cv = NULL \/ img = NULL
       THEN [canvas |-> cv, did |-> "skipped"]
    ELSE
      LET scaleX == RDiv(R(img.naturalWidth), R(img.width))
          scaleY == RDiv(R(img.naturalHeight), R(img.height))
          cropX == RMul(cc.x, scaleX)
          cropY == RMul(cc.y, scaleY)
          cropWidth == RMul(cc.width, scaleX)
          cropHeight == RMul(cc.height, scaleY)
          canvasWidth == IF isRotated(rot) THEN cropHeight ELSE cropWidth
          canvasHeight == IF isRotated(rot) THEN cropWidth ELSE cropHeight
      IN  IF RLe(cropWidth, Zero) \/ RLe(cropHeight, Zero)
             THEN [canvas |-> cv, did |-> "skipped"]
             ELSE [canvas |-> [width |-> Floor(RMul(canvasWidth, dpr)),
                               height |-> Floor(RMul(canvasHeight, dpr)),
                               drawn |-> [sx |-> cropX, sy |-> cropY,
                                          sw |-> cropWidth, sh |-> cropHeight,
                                          rotate |-> rot]],
                   did |-> "drawn"]

\* src/unnamed/part_000 lines 37-75 (no rotation, no zero-size guard)
renderEffectBasic(cc, img, cv, dpr) ==
    IF cc = NULL \/ cv = NULL \/ img = NULL
       THEN [canvas |-> cv, did |-> "skipped"]
    ELSE
      LET scaleX == RDiv(R(img.naturalWidth), R(img.width))
          scaleY == RDiv(R(img.naturalHeight), R(img.height))
      IN  [canvas |-> [width |-> Floor(RMul(RMul(cc.width, scaleX), dpr)),
                       height |-> Floor(RMul(RMul(cc.height, scaleY), dpr)),
                       drawn |-> [sx |-> RMul(cc.x, scaleX), sy |-> RMul(cc.y, scaleY),
                                  sw |-> RMul(cc.width, scaleX),
                                  sh |-> RMul(cc.height, scaleY),
                                  rotate |-> 0]],
           did |-> "drawn"]

(***************************************************************************)
(* State.                                                                  *)
(***************************************************************************)
VARIABLES
    originalImage,    \* useState: data URL of the image (the file's name) or NoString
    imageFile,        \* useState: the accepted File or NULL (App.tsx only)
    error,            \* useState: message or NoString
    appState,         \* useState: 'idle' | 'loading' | 'success' | 'error'
    selectedRatio,    \* useState: an element of RATIOS
    crop,             \* useState: the live crop (percent) or NULL
    completedCrop,    \* useState: the committed crop or NULL
    rotation,         \* useState: degrees (App.tsx only)
    isSmartCropping,  \* useState: busy flag (App.tsx only)
    imgRef,           \* useRef: the loaded <img> (its sizes) or NULL
    canvas,           \* previewCanvasRef.current: the mounted <canvas> or NULL
    reader,           \* the File a FileReader is reading, or NULL
    imgElem,          \* the <img> element: "none" | "loading" | "loaded" | "failed"
    dragging,         \* the crop widget is in the middle of a pointer drag
    requests,         \* handleSmartCrop calls awaiting getSmartCrop
    ai,               \* part_002: the cached GoogleGenAI instance or NoString
    apiKey,           \* process.env.API_KEY or NoString
    devicePixelRatio, \* window.devicePixelRatio
    lastAction,       \* observation: the handler that ran last and its branch
    rendered,         \* observation: what the render effect did in the last step
    returned          \* observation: what getSmartCrop settled with in the last step

vars == << originalImage, imageFile, error, appState, selectedRatio, crop,
           completedCrop, rotation, isSmartCropping, imgRef, canvas, reader,
           imgElem, dragging, requests, ai, apiKey, devicePixelRatio,
           lastAction, rendered, returned >>

env == << apiKey, devicePixelRatio >>

\* Further image files, used where the geometry is checked on more sizes.
GeomFiles ==
    Files \cup
    { [name |-> "tall.jpg",   type |-> <<"image", "jpeg">>, img |-> MkImg(300, 600, 600, 1200)],
      [name |-> "photo.jpg",  type |-> <<"image", "jpeg">>, img |-> MkImg(640, 480, 1280, 960)],
      [name |-> "square.png", type |-> <<"image", "png">>,  img |-> MkImg(100, 100, 400, 400)] }

\* the file behind a data URL
FileOf(url) == CHOOSE f \in GeomFiles : f.name = url

Rotations == {0, 90, 180, 270}

\* More response bodies for the suggestion client.
GeomData ==
    { MkData(R(40), R(40), R(80), R(80)),
      MkData(R(-10), R(20), R(50), R(50)),
      MkData(R(150), R(10), R(20), R(20)),
      MkData(R(40), R(150), R(20), R(20)),
      MkData(R(0), R(0), R(100), R(100)),
      MkData(R(10), R(10), R(30), NULL),
      MkData(NULL, R(10), R(30), R(30)) }

GeomResponses ==
    { [kind |-> "emptyText", data |-> NULL],
      [kind |-> "noJsonObject", data |-> NULL] }
    \cup { [kind |-> "json", data |-> d] : d \in GeomData }

\* The rectangles the crop widget emits while the user drags: a pointer-down
\* without movement (zero size) and a rectangle of the widget's aspect.
WidgetCrops(img, aspect) ==
    { MkCrop("%", R(10), R(10), Zero, Zero),
      makeAspectCrop(MkCrop("%", R(10), R(10), R(50), Zero), aspect, img.width, img.height) }

Init ==
    /\ originalImage = NoString
    /\ imageFile = NULL
    /\ error = NoString
    /\ appState = "idle"
    /\ selectedRatio = RATIOS[1]
    /\ crop = NULL
    /\ completedCrop = NULL
    /\ rotation = 0
    /\ isSmartCropping = FALSE
    /\ imgRef = NULL
    /\ canvas = NULL
    /\ reader = NULL
    /\ imgElem = "none"
    /\ dragging = FALSE
    /\ requests = {}
    /\ ai = NoString
    /\ apiKey \in {NoString, "key"}
    /\ devicePixelRatio \in PixelRatios
    /\ lastAction = "init"
    /\ rendered = "notrun"
    /\ returned = NoResult

(***************************************************************************)
(* src/App.tsx: handlers.                                                  *)
(***************************************************************************)
\* handleFile, lines 96-123 (reached from the upload area, shown when idle)
handleFile(file) ==
    /\ appState = "idle"
    /\ IF ~startsWithImage(file.type)
          THEN /\ error' = "Invalid file type. Please upload an image."
               /\ appState' = "error"
               /\ lastAction' = "handleFile:rejected"
               /\ UNCHANGED << originalImage, imageFile, crop, completedCrop,
                               rotation, reader >>
          ELSE /\ error' = NoString
               /\ appState' = "loading"
               /\ originalImage' = NoString
               /\ imageFile' = file
               /\ crop' = NULL
               /\ completedCrop' = NULL
               /\ rotation' = 0
               /\ reader' = file
               /\ lastAction' = "handleFile:accepted"
    /\ rendered' = "notrun"
    /\ returned' = NoResult
    /\ UNCHANGED << selectedRatio, isSmartCropping, imgRef, canvas, imgElem,
                    dragging, requests, ai, env >>

\* reader.onload, lines 113-117: the image and the preview canvas mount
readerOnload ==
    /\ reader # NULL
    /\ originalImage' = reader.name
    /\ appState' = "success"
    /\ reader' = NULL
    /\ imgElem' = "loading"
    /\ canvas' = NewCanvas
    /\ lastAction' = "reader.onload"
    /\ returned' = NoResult
    /\ rendered' = "notrun"
    /\ UNCHANGED << imageFile, error, selectedRatio, crop, completedCrop, rotation,
                    isSmartCropping, imgRef, dragging, requests, ai, env >>

\* reader.onerror, lines 118-121
readerOnerror ==
    /\ reader # NULL
    /\ error' = "Could not read file."
    /\ appState' = "error"
    /\ reader' = NULL
    /\ lastAction' = "reader.onerror"
    /\ returned' = NoResult
    /\ rendered' = "notrun"
    /\ UNCHANGED << originalImage, imageFile, selectedRatio, crop, completedCrop,
                    rotation, isSmartCropping, imgRef, canvas, imgElem, dragging,
                    requests, ai, env >>

\* the <img> (lines 334-339) cannot decode its source: there is no onError
imgDecodeError ==
    /\ imgElem = "loading"
    /\ imgElem' = "failed"
    /\ lastAction' = "img.error"
    /\ returned' = NoResult
    /\ rendered' = "notrun"
    /\ UNCHANGED << originalImage, imageFile, error, appState, selectedRatio, crop,
                    completedCrop, rotation, isSmartCropping, imgRef, canvas,
                    reader, dragging, requests, ai, env >>

\* onImageLoad, lines 125-140, followed by the widget's update (line 328)
\* and the render effect
onImageLoad ==
    /\ imgElem = "loading"
    /\ LET img == FileOf(originalImage).img
           percentCrop == loadCrop(selectedRatio, rotation, img.width, img.height)
           cc == componentDidUpdate(crop, percentCrop,
                                    pixelToPercent(percentCrop, img.width, img.height), img)
           eff == renderEffect(cc, rotation, img, canvas, devicePixelRatio)
       IN  /\ imgRef' = img
           /\ crop' = percentCrop
           /\ completedCrop' = cc
           /\ canvas' = eff.canvas
           /\ rendered' = eff.did
    /\ imgElem' = "loaded"
    /\ lastAction' = "onImageLoad"
    /\ returned' = NoResult
    /\ UNCHANGED << originalImage, imageFile, error, appState, selectedRatio,
                    rotation, isSmartCropping, reader, dragging, requests, ai, env >>

\* mutant: the new rectangle keeps the position of the one it replaces
updateCropForRatioIncremental(ratio, currentRotation) ==
    IF imgRef # NULL
       THEN LET fresh == ratioCrop(ratio, currentRotation, imgRef.width, imgRef.height)
                percentCrop == IF crop # NULL
                                  THEN [fresh EXCEPT !.x = crop.x, !.y = crop.y]
                                  ELSE fresh
                cc == pixelToPercent(percentCrop, imgRef.width, imgRef.height)
                eff == renderEffect(cc, currentRotation, imgRef, canvas, devicePixelRatio)
            IN  /\ crop' = percentCrop
                /\ completedCrop' = cc
                /\ canvas' = eff.canvas
                /\ rendered' = eff.did
       ELSE /\ UNCHANGED << crop, completedCrop, canvas >>
            /\ rendered' = IF currentRotation # rotation THEN "skipped" ELSE "notrun"

\* updateCropForRatio, lines 205-217, with the render that follows
updateCropForRatio(ratio, currentRotation) ==
    IF imgRef # NULL
       THEN LET percentCrop == ratioCrop(ratio, currentRotation, imgRef.width, imgRef.height)
                cc == pixelToPercent(percentCrop, imgRef.width, imgRef.height)
                eff == renderEffect(cc, currentRotation, imgRef, canvas, devicePixelRatio)
            IN  /\ crop' = percentCrop
                /\ completedCrop' = cc
                /\ canvas' = eff.canvas
                /\ rendered' = eff.did
       ELSE /\ UNCHANGED << crop, completedCrop, canvas >>
            /\ rendered' = IF currentRotation # rotation THEN "skipped" ELSE "notrun"

\* handleRatioChange, lines 219-222 (the selector is shown in 'success')
handleRatioChange(ratio) ==
    /\ appState = "success"
    /\ ~dragging
    /\ selectedRatio' = ratio
    /\ updateCropForRatio(ratio, rotation)
    /\ lastAction' = "handleRatioChange"
    /\ returned' = NoResult
    /\ UNCHANGED << originalImage, imageFile, error, appState, rotation,
                    isSmartCropping, imgRef, reader, imgElem, dragging, requests,
                    ai, env >>

\* mutant: the wrong modulus lets the rotation reach 360
handleRotateWrongModulus ==
    /\ appState = "success"
    /\ ~dragging
    /\ LET newRotation == (rotation + 90) % 450
       IN  /\ rotation' = newRotation
           /\ updateCropForRatio(selectedRatio, newRotation)
    /\ lastAction' = "handleRotate"
    /\ returned' = NoResult
    /\ UNCHANGED << originalImage, imageFile, error, appState, selectedRatio,
                    isSmartCropping, imgRef, reader, imgElem, dragging, requests,
                    ai, env >>

\* handleRotate, lines 224-228 (the button is shown in 'success')
handleRotate ==
    /\ appState = "success"
    /\ ~dragging
    /\ LET newRotation == (rotation + 90) % 360
       IN  /\ rotation' = newRotation
           /\ updateCropForRatio(selectedRatio, newRotation)
    /\ lastAction' = "handleRotate"
    /\ returned' = NoResult
    /\ UNCHANGED << originalImage, imageFile, error, appState, selectedRatio,
                    isSmartCropping, imgRef, reader, imgElem, dragging, requests,
                    ai, env >>

\* mutant: 'Start Over' also clears the busy flag
handleResetClearingBusy ==
    /\ appState \in {"error", "success"}
    /\ ~dragging
    /\ originalImage' = NoString
    /\ imageFile' = NULL
    /\ error' = NoString
    /\ appState' = "idle"
    /\ imgRef' = NULL
    /\ crop' = NULL
    /\ completedCrop' = NULL
    /\ rotation' = 0
    /\ canvas' = NULL
    /\ imgElem' = "none"
    /\ isSmartCropping' = FALSE
    /\ lastAction' = "handleReset"
    /\ returned' = NoResult
    /\ rendered' = IF completedCrop # NULL \/ rotation # 0 THEN "skipped" ELSE "notrun"
    /\ UNCHANGED << selectedRatio, reader, dragging, requests, ai, env >>

\* handleReset, lines 191-203 ('Try Again' in 'error', 'Start Over' in 'success')
handleReset ==
    /\ appState \in {"error", "success"}
    /\ ~dragging
    /\ originalImage' = NoString
    /\ imageFile' = NULL
    /\ error' = NoString
    /\ appState' = "idle"
    /\ imgRef' = NULL
    /\ crop' = NULL
    /\ completedCrop' = NULL
    /\ rotation' = 0
    /\ canvas' = NULL
    /\ imgElem' = "none"
    /\ lastAction' = "handleReset"
    /\ returned' = NoResult
    /\ rendered' = IF completedCrop # NULL \/ rotation # 0 THEN "skipped" ELSE "notrun"
    /\ UNCHANGED << selectedRatio, isSmartCropping, reader, dragging, requests,
                    ai, env >>

\* mutant: the intermediate rectangle is committed as well
onChangeCommitting ==
    /\ appState = "success"
    /\ imgElem = "loaded"
    /\ \E c \in WidgetCrops(imgRef, getAspectRatio(imgRef, selectedRatio, rotation)) :
          /\ crop' = c
          /\ completedCrop' = convertToPixelCrop(c, imgRef.width, imgRef.height)
    /\ dragging' = TRUE
    /\ lastAction' = "onChange"
    /\ returned' = NoResult
    /\ rendered' = "notrun"
    /\ UNCHANGED << originalImage, imageFile, error, appState, selectedRatio,
                    rotation, isSmartCropping, imgRef, canvas,
                    reader, imgElem, requests, ai, env >>

\* ReactCrop onChange, line 327: an intermediate rectangle of a drag
onChange ==
    /\ appState = "success"
    /\ imgElem = "loaded"
    /\ \E c \in WidgetCrops(imgRef, getAspectRatio(imgRef, selectedRatio, rotation)) :
          crop' = c
    /\ dragging' = TRUE
    /\ lastAction' = "onChange"
    /\ returned' = NoResult
    /\ rendered' = "notrun"
    /\ UNCHANGED << originalImage, imageFile, error, appState, selectedRatio,
                    completedCrop, rotation, isSmartCropping, imgRef, canvas,
                    reader, imgElem, requests, ai, env >>

\* ReactCrop onComplete, line 328: the drag ends, the widget hands over the
\* pixel form of its crop; the render effect follows
onComplete ==
    /\ dragging
    /\ appState = "success"
    /\ LET c == convertToPixelCrop(crop, imgRef.width, imgRef.height)
           eff == renderEffect(c, rotation, imgRef, canvas, devicePixelRatio)
       IN  /\ completedCrop' = c
           /\ canvas' = eff.canvas
           /\ rendered' = eff.did
    /\ dragging' = FALSE
    /\ lastAction' = "onComplete"
    /\ returned' = NoResult
    /\ UNCHANGED << originalImage, imageFile, error, appState, selectedRatio, crop,
                    rotation, isSmartCropping, imgRef, reader, imgElem, requests,
                    ai, env >>

\* handleSmartCrop up to the await, lines 230-235.  The closure keeps the
\* imageFile, rotation and selectedRatio of the render it was created in.
handleSmartCropStart ==
    /\ appState = "success"
    /\ originalImage # NoString
    /\ ~isSmartCropping
    /\ ~dragging
    /\ imageFile # NULL
    /\ isSmartCropping' = TRUE
    /\ error' = NoString
    /\ LET inst == getAiInstance(ai, apiKey)
       IN  /\ ai' = inst.ai
           /\ requests' = requests \cup
                 { [file |-> imageFile.name, rotation |-> rotation,
                    ratio |-> selectedRatio, aiError |-> inst.error] }
    /\ lastAction' = "handleSmartCrop:start"
    /\ returned' = NoResult
    /\ rendered' = "notrun"
    /\ UNCHANGED << originalImage, imageFile, appState, selectedRatio, crop,
                    completedCrop, rotation, imgRef, canvas, reader, imgElem,
                    dragging, env >>

\* mutant: a failed suggestion discards the rectangle
smartCropFailedClearing(res, tag) ==
    /\ error' = failureMessage(res)
    /\ lastAction' = tag
    /\ rendered' = "skipped"
    /\ crop' = NULL
    /\ completedCrop' = NULL
    /\ UNCHANGED canvas

\* the branches of handleSmartCrop that apply nothing: line 248 (null
\* result or no image) and lines 250-256 (exception)
smartCropFailed(res, tag) ==
    /\ error' = failureMessage(res)
    /\ lastAction' = tag
    /\ rendered' = "notrun"
    /\ UNCHANGED << crop, completedCrop, canvas >>

\* handleSmartCrop after the await, lines 235-259
handleSmartCropDone(req, resp) ==
    /\ req \in requests
    /\ requests' = requests \ {req}
    /\ LET res == getSmartCrop(req.aiError, resp)
       IN  IF res.tag = "return"
              THEN IF res.value # NULL /\ imgRef # NULL
                      THEN LET centeredCrop == smartCrop(res.value, req.ratio, req.rotation,
                                                         imgRef.width, imgRef.height)
                               cc == pixelToPercent(centeredCrop, imgRef.width, imgRef.height)
                               eff == renderEffect(cc, rotation, imgRef, canvas, devicePixelRatio)
                           IN  /\ crop' = centeredCrop
                               /\ completedCrop' = cc
                               /\ canvas' = eff.canvas
                               /\ rendered' = eff.did
                               /\ lastAction' = "handleSmartCrop:applied"
                               /\ UNCHANGED error
                      ELSE smartCropFailed(res, "handleSmartCrop:null")
              ELSE smartCropFailed(res, "handleSmartCrop:throw")
    /\ returned' = Settled(IF req.aiError # NoString THEN "noKey" ELSE resp.kind,
                            getSmartCrop(req.aiError, resp))
    /\ isSmartCropping' = FALSE
    /\ UNCHANGED << originalImage, imageFile, appState, selectedRatio, rotation,
                    imgRef, reader, imgElem, dragging, ai, env >>

Next ==
    \/ \E file \in Files : handleFile(file)
    \/ readerOnload
    \/ readerOnerror
    \/ imgDecodeError
    \/ onImageLoad
    \/ \E ratio \in PickedRatios : handleRatioChange(ratio)
    \/ handleRotate
    \/ handleReset
    \/ onChange
    \/ onComplete
    \/ handleSmartCropStart
    \/ \E req \in requests, resp \in Responses : handleSmartCropDone(req, resp)

Spec == Init /\ [][Next]_vars

(***************************************************************************)
(* The geometry on more inputs: the rotation-aware app right after the     *)
(* file was read, for every file of GeomFiles, every ratio and rotation    *)
(* the user may have selected before the image finishes loading.           *)
(***************************************************************************)
GeomInit ==
    /\ \E f \in { g \in GeomFiles : startsWithImage(g.type) } :
          /\ originalImage = f.name
          /\ imageFile = f
    /\ error = NoString
    /\ appState = "success"
    /\ selectedRatio \in RatioSet
    /\ crop = NULL
    /\ completedCrop = NULL
    /\ rotation \in Rotations
    /\ isSmartCropping = FALSE
    /\ imgRef = NULL
    /\ canvas = NewCanvas
    /\ reader = NULL
    /\ imgElem = "loading"
    /\ dragging = FALSE
    /\ requests = {}
    /\ ai = NoString
    /\ apiKey = "key"
    /\ devicePixelRatio \in PixelRatios
    /\ lastAction = "reader.onload"
    /\ rendered = "notrun"
    /\ returned = NoResult

GeomNext ==
    \/ onImageLoad
    \/ \E ratio \in {selectedRatio} : handleRatioChange(ratio)
    \/ handleSmartCropStart
    \/ \E req \in requests, resp \in GeomResponses : handleSmartCropDone(req, resp)

SpecGeom == GeomInit /\ [][GeomNext]_vars

(***************************************************************************)
(* src/unnamed/part_000: the basic app.  It has no imageFile, rotation or  *)
(* smart crop; its FileReader callbacks and <img> are those of App.tsx.    *)
(***************************************************************************)
\* handleFile, part_000 lines 77-101
handleFileBasic(file) ==
    /\ appState = "idle"
    /\ IF ~startsWithImage(file.type)
          THEN /\ error' = "Invalid file type. Please upload an image."
               /\ appState' = "error"
               /\ lastAction' = "handleFile:rejected"
               /\ UNCHANGED << originalImage, crop, completedCrop, reader >>
          ELSE /\ error' = NoString
               /\ appState' = "loading"
               /\ originalImage' = NoString
               /\ crop' = NULL
               /\ completedCrop' = NULL
               /\ reader' = file
               /\ lastAction' = "handleFile:accepted"
    /\ rendered' = "notrun"
    /\ returned' = NoResult
    /\ UNCHANGED << imageFile, rotation, selectedRatio, isSmartCropping, imgRef,
                    canvas, imgElem, dragging, requests, ai, env >>

\* the percent crop of onImageLoad (lines 106-118) and handleRatioChange (168-180)
basicCrop(ratio, width, height) ==
    centerCrop(makeAspectCrop(Width90, ratio.value, width, height), width, height)

\* onImageLoad, part_000 lines 103-121, followed by the widget's update
\* (line 237) and the render effect
onImageLoadBasic ==
    /\ imgElem = "loading"
    /\ LET img == FileOf(originalImage).img
           newCrop == basicCrop(selectedRatio, img.width, img.height)
           cc == componentDidUpdate(crop, newCrop, newCrop, img)
           eff == renderEffectBasic(cc, img, canvas, devicePixelRatio)
       IN  /\ imgRef' = img
           /\ crop' = newCrop
           /\ completedCrop' = cc
           /\ canvas' = eff.canvas
           /\ rendered' = eff.did
    /\ imgElem' = "loaded"
    /\ lastAction' = "onImageLoad"
    /\ returned' = NoResult
    /\ UNCHANGED << originalImage, imageFile, error, appState, selectedRatio,
                    rotation, isSmartCropping, reader, dragging, requests, ai, env >>

\* handleRatioChange, part_000 lines 164-184 (the selector is enabled in 'success')
handleRatioChangeBasic(ratio) ==
    /\ appState = "success"
    /\ ~dragging
    /\ selectedRatio' = ratio
    /\ IF imgRef # NULL
          THEN LET newCrop == basicCrop(ratio, imgRef.width, imgRef.height)
                   cc == componentDidUpdate(crop, newCrop, newCrop, imgRef)
                   eff == renderEffectBasic(cc, imgRef, canvas, devicePixelRatio)
               IN  /\ crop' = newCrop
                   /\ completedCrop' = cc
                   /\ canvas' = eff.canvas
                   /\ rendered' = eff.did
          ELSE /\ UNCHANGED << crop, completedCrop, canvas >>
               /\ rendered' = "notrun"
    /\ lastAction' = "handleRatioChange"
    /\ returned' = NoResult
    /\ UNCHANGED << originalImage, imageFile, error, appState, rotation,
                    isSmartCropping, imgRef, reader, imgElem, dragging, requests,
                    ai, env >>

\* handleReset, part_000 lines 147-162
handleResetBasic ==
    /\ appState \in {"error", "success"}
    /\ ~dragging
    /\ originalImage' = NoString
    /\ error' = NoString
    /\ appState' = "idle"
    /\ imgRef' = NULL
    /\ crop' = NULL
    /\ completedCrop' = NULL
    /\ canvas' = NULL
    /\ imgElem' = "none"
    /\ lastAction' = "handleReset"
    /\ returned' = NoResult
    /\ rendered' = IF completedCrop # NULL THEN "skipped" ELSE "notrun"
    /\ UNCHANGED << imageFile, rotation, selectedRatio, isSmartCropping, reader,
                    dragging, requests, ai, env >>

\* ReactCrop onChange, part_000 line 236 (aspect = selectedRatio.value, line 238)
onChangeBasic ==
    /\ appState = "success"
    /\ imgElem = "loaded"
    /\ \E c \in WidgetCrops(imgRef, selectedRatio.value) : crop' = c
    /\ dragging' = TRUE
    /\ lastAction' = "onChange"
    /\ returned' = NoResult
    /\ rendered' = "notrun"
    /\ UNCHANGED << originalImage, imageFile, error, appState, selectedRatio,
                    completedCrop, rotation, isSmartCropping, imgRef, canvas,
                    reader, imgElem, requests, ai, env >>

\* ReactCrop onComplete, part_000 line 237, followed by the render effect
onCompleteBasic ==
    /\ dragging
    /\ appState = "success"
    /\ LET c == convertToPixelCrop(crop, imgRef.width, imgRef.height)
           eff == renderEffectBasic(c, imgRef, canvas, devicePixelRatio)
       IN  /\ completedCrop' = c
           /\ canvas' = eff.canvas
           /\ rendered' = eff.did
    /\ dragging' = FALSE
    /\ lastAction' = "onComplete"
    /\ returned' = NoResult
    /\ UNCHANGED << originalImage, imageFile, error, appState, selectedRatio, crop,
                    rotation, isSmartCropping, imgRef, reader, imgElem, requests,
                    ai, env >>

InitBasic == Init /\ apiKey = NoString

NextBasic ==
    \/ \E file \in Files : handleFileBasic(file)
    \/ readerOnload
    \/ readerOnerror
    \/ imgDecodeError
    \/ onImageLoadBasic
    \/ \E ratio \in RatioSet : handleRatioChangeBasic(ratio)
    \/ handleResetBasic
    \/ onChangeBasic
    \/ onCompleteBasic

SpecBasic == InitBasic /\ [][NextBasic]_vars

(***************************************************************************)
(* Properties.                                                             *)
(***************************************************************************)
\* a percent crop is centered in the image
Centered(c) ==
    /\ c.x = RDiv(RSub(Hundred, c.width), R(2))
    /\ c.y = RDiv(RSub(Hundred, c.height), R(2))

\* width/height of a percent crop, measured in pixels of the image
PixelAspect(c, img) ==
    RDiv(RMul(c.width, R(img.width)), RMul(c.height, R(img.height)))

\* a percent rectangle lies in [0,100] x [0,100]
Contained(c) ==
    /\ RLe(Zero, c.x)
    /\ RLe(Zero, c.y)
    /\ RLe(RAdd(c.x, c.width), Hundred)
    /\ RLe(RAdd(c.y, c.height), Hundred)

\* the image's height limits a crop of the given aspect (it is relatively
\* wider than the crop); otherwise its width does
HeightLimits(img, aspect) == RLe(aspect, RDiv(R(img.width), R(img.height)))

JustLoadedUpright == lastAction = "onImageLoad" /\ rotation = 0

\* C1 (as stated): for rotation 0 the crop computed on image load is
\* centered, has pixel aspect ratio.value and occupies exactly 90% of the
\* limiting image dimension; 1000x500 with 1:1 gives x=27.5 y=5 w=45 h=90.
C1_NinetyOfLimiting ==
    JustLoadedUpright =>
        /\ Centered(crop)
        /\ PixelAspect(crop, imgRef) = selectedRatio.value
        /\ IF HeightLimits(imgRef, selectedRatio.value)
              THEN crop.height = R(90) ELSE crop.width = R(90)
        /\ (imgRef.width = 1000 /\ imgRef.height = 500 /\ selectedRatio.label = "1:1")
              => crop = MkCrop("%", Rat(55, 2), R(5), R(45), R(90))

\* C1 (amended): for rotation 0 the crop computed on image load is centered
\* and has pixel aspect ratio.value; it is 90% of the image width when a
\* rectangle that wide fits the image height, and otherwise spans the full
\* image height; 1000x500 with 1:1 gives x=25 y=0 w=50 h=100.
C1_LoadCropCentered ==
    JustLoadedUpright =>
        /\ Centered(crop)
        /\ PixelAspect(crop, imgRef) = selectedRatio.value
        /\ IF RLe(RDiv(RMul(Rat(9, 10), R(imgRef.width)), selectedRatio.value),
                  R(imgRef.height))
              THEN crop.width = R(90) ELSE crop.height = Hundred
        /\ (imgRef.width = 1000 /\ imgRef.height = 500 /\ selectedRatio.label = "1:1")
              => crop = MkCrop("%", R(25), Zero, R(50), Hundred)

C1_Witness ==
    /\ JustLoadedUpright
    /\ imgRef.width = 1000 /\ imgRef.height = 500
    /\ selectedRatio.label = "1:1"
    /\ crop = MkCrop("%", R(25), Zero, R(50), Hundred)

\* C2: the percent crop produced by onImageLoad and by updateCropForRatio
\* lies in [0,100] x [0,100], for every image, ratio and rotation.
C2_CropContained ==
    (lastAction \in {"onImageLoad", "handleRatioChange", "handleRotate"} /\ crop # NULL)
        => Contained(crop)

C2_Witness ==
    /\ lastAction = "handleRatioChange"
    /\ rotation = 270
    /\ selectedRatio.label = "2.35:1"
    /\ crop # NULL
    /\ crop.height = Hundred

\* the committed crop in native pixels, as the render effect measures it
NativeWidth(cc, img) == RMul(cc.width, RDiv(R(img.naturalWidth), R(img.width)))
NativeHeight(cc, img) == RMul(cc.height, RDiv(R(img.naturalHeight), R(img.height)))

Degenerate(cc, img) ==
    RLe(NativeWidth(cc, img), Zero) \/ RLe(NativeHeight(cc, img), Zero)

Mounted == completedCrop # NULL /\ imgRef # NULL /\ canvas # NULL

\* C3: with a non-degenerate committed crop the canvas is (cropWidth,
\* cropHeight) times the device pixel ratio for rotation 0 or 180 and
\* (cropHeight, cropWidth) times the device pixel ratio for rotation 90 or
\* 270, each floored to whole pixels as canvas sizes are.
C3_CanvasDimensions ==
    (Mounted /\ ~Degenerate(completedCrop, imgRef)) =>
        LET w == NativeWidth(completedCrop, imgRef)
            h == NativeHeight(completedCrop, imgRef)
        IN  IF rotation \in {0, 180}
               THEN /\ canvas.width = Floor(RMul(w, devicePixelRatio))
                    /\ canvas.height = Floor(RMul(h, devicePixelRatio))
               ELSE /\ canvas.width = Floor(RMul(h, devicePixelRatio))
                    /\ canvas.height = Floor(RMul(w, devicePixelRatio))

C3_Witness ==
    /\ Mounted
    /\ rendered = "drawn"
    /\ rotation = 90
    /\ devicePixelRatio = R(2)
    /\ ~Degenerate(completedCrop, imgRef)
    /\ canvas.width = Floor(RMul(NativeHeight(completedCrop, imgRef), R(2)))
    /\ canvas.width # canvas.height

\* C4: in each render effect a committed crop with cropWidth <= 0 or
\* cropHeight <= 0 makes rendering a no-op: drawImage is not called and the
\* canvas keeps its size.
C4_DegenerateIsNoop ==
    (Mounted /\ Degenerate(completedCrop, imgRef)) =>
        /\ rendered # "drawn"
        /\ canvas.width > 0
        /\ canvas.height > 0

\* the closed form of a centered crop of the given aspect seeded with 90% width
Recentered(img, aspect) ==
    LET h90 == RDiv(RMul(R(90), R(img.width)), RMul(aspect, R(img.height)))
        w == IF RLe(h90, Hundred) THEN R(90)
             ELSE RDiv(RMul(RMul(Hundred, aspect), R(img.height)), R(img.width))
        h == IF RLe(h90, Hundred) THEN h90 ELSE Hundred
    IN  MkCrop("%", RDiv(RSub(Hundred, w), R(2)), RDiv(RSub(Hundred, h), R(2)), w, h)

InPixels(c, img) ==
    MkCrop("px", RDiv(RMul(c.x, R(img.width)), Hundred),
                 RDiv(RMul(c.y, R(img.height)), Hundred),
                 RDiv(RMul(c.width, R(img.width)), Hundred),
                 RDiv(RMul(c.height, R(img.height)), Hundred))

\* C5: with an image loaded, the live and committed crop after a ratio
\* change or a rotate are a function of the image size, the new ratio and
\* the new rotation alone (whatever the rectangle was before), so selecting
\* the same ratio again leaves both unchanged.
C5_RecenterIsRecomputation ==
    [][ (lastAction' \in {"handleRatioChange", "handleRotate"} /\ imgRef' # NULL) =>
            LET a == IF rotation' \in {90, 270}
                        THEN RDiv(R(1), selectedRatio'.value) ELSE selectedRatio'.value
                c == Recentered(imgRef', a)
            IN  /\ crop' = c
                /\ completedCrop' = InPixels(c, imgRef')
                /\ (/\ lastAction = "handleRatioChange"
                    /\ lastAction' = "handleRatioChange"
                    /\ selectedRatio' = selectedRatio)
                      => (crop' = crop /\ completedCrop' = completedCrop) ]_vars

\* a rotate that followed a drag and recentered the crop
C5_Witness ==
    /\ lastAction = "handleRotate"
    /\ rotation = 90
    /\ imgRef # NULL
    /\ crop = Recentered(imgRef, RDiv(R(1), selectedRatio.value))
    /\ selectedRatio.label = "9:16"

\* C6: rotation is always one of 0, 90, 180, 270; a rotate changes it to
\* (rotation + 90) mod 360, so four rotates restore it; reset and accepting
\* a new file set it to 0; nothing else changes it.
C6_RotationCycle ==
    /\ [](rotation \in {0, 90, 180, 270})
    /\ [][ /\ lastAction' = "handleRotate" => rotation' = (rotation + 90) % 360
           /\ lastAction' \in {"handleReset", "handleFile:accepted"} => rotation' = 0
           /\ lastAction' \notin {"handleRotate", "handleReset", "handleFile:accepted"}
                 => rotation' = rotation
           /\ LET turn(r) == (r + 90) % 360
              IN  turn(turn(turn(turn(rotation)))) = rotation ]_vars

C6_Witness == lastAction = "handleRotate" /\ rotation = 0 /\ imgRef # NULL

\* C7: every region getSmartCrop returns for a body with all four fields
\* has x and y in [0,100], x+width <= 100 and y+height <= 100; the body
\* {x:40, y:40, width:80, height:80} comes back with width, height <= 60.
C7_RegionClamped ==
    (returned.tag = "return" /\ returned.value # NULL) =>
        /\ RLe(Zero, returned.value.x) /\ RLe(returned.value.x, Hundred)
        /\ RLe(Zero, returned.value.y) /\ RLe(returned.value.y, Hundred)
        /\ RLe(RAdd(returned.value.x, returned.value.width), Hundred)
        /\ RLe(RAdd(returned.value.y, returned.value.height), Hundred)

FailedTags == {"handleSmartCrop:null", "handleSmartCrop:throw"}

\* C8: when a smart-crop request fails (an exception or a null result) the
\* live crop, the committed crop, the rotation and the selected ratio are
\* what they were before the completion was handled, the preview is not
\* redrawn, and no new request is issued.
C8_FailureLeavesCrop ==
    [][ lastAction' \in FailedTags =>
            /\ crop' = crop
            /\ completedCrop' = completedCrop
            /\ rotation' = rotation
            /\ selectedRatio' = selectedRatio
            /\ canvas' = canvas
            /\ requests' \subseteq requests /\ requests' # requests ]_vars

C8_Witness ==
    /\ lastAction \in FailedTags
    /\ returned.kind = "transportError"
    /\ crop # NULL
    /\ completedCrop # NULL
    /\ requests = {}

\* the three failure kinds of the suggestion service
FailureClass(kind) ==
    IF kind = "noKey" THEN "configuration-missing"
    ELSE IF kind = "transportError" THEN "transport"
    ELSE IF kind \in {"emptyText", "noJsonObject", "invalidJson"} THEN "malformed"
    ELSE "other"

\* the message the app records for a given failure kind
MessageOfKind(kind) ==
    failureMessage(getSmartCrop(IF kind = "noKey" THEN "API_KEY_NOT_CONFIGURED" ELSE NoString,
                                [kind |-> kind, data |-> NULL]))

ThreeKinds == {"noKey", "transportError", "emptyText", "noJsonObject", "invalidJson"}

\* C9: the three failure kinds (credential missing, malformed response,
\* transport failure) all end with the busy flag cleared and the crop
\* untouched, and each kind has a message of its own: the message recorded
\* for a failure is not the message of a failure of another kind.
C9_DistinctMessages ==
    (lastAction \in FailedTags /\ returned.kind \in ThreeKinds) =>
        /\ ~isSmartCropping
        /\ error = MessageOfKind(returned.kind)
        /\ \A k \in ThreeKinds :
              FailureClass(k) # FailureClass(returned.kind) => MessageOfKind(k) # error

\* C10: a recorded error is in the visible message slot: error is set only
\* while appState is 'error', and appState 'error' always has a message.
C10_ErrorIsShown ==
    /\ error # NoString => appState = "error"
    /\ appState = "error" => error # NoString

DoneTags == {"handleSmartCrop:applied", "handleSmartCrop:null", "handleSmartCrop:throw"}

\* C11: across every interleaving at most one smart-crop request is
\* outstanding; isSmartCropping is true exactly while a request is
\* outstanding; a request is issued only while the flag is false; and every
\* completion (region applied, null result, exception) sets it back to false.
C11_OneRequest ==
    /\ [](Cardinality(requests) <= 1 /\ (isSmartCropping <=> requests # {}))
    /\ [][ /\ (requests' \ requests # {}) =>
                 (~isSmartCropping /\ lastAction' = "handleSmartCrop:start")
           /\ lastAction' = "handleSmartCrop:start" => ~isSmartCropping
           /\ lastAction' \in DoneTags =>
                 (isSmartCropping /\ ~isSmartCropping' /\ requests' = {}) ]_vars

\* another image was loaded while the request of the previous one is
\* still outstanding
C11_Witness ==
    /\ lastAction = "onImageLoad"
    /\ isSmartCropping
    /\ \E req \in requests : req.file # originalImage

Applied == lastAction = "handleSmartCrop:applied"

\* C12: when a suggestion arrives and is applied, the new live crop has the
\* effective aspect of the ratio and rotation selected at that moment
\* (under either rotation convention of the app), also when the user
\* changed the ratio or rotated while the request was outstanding.
C12_HonorsCurrent ==
    Applied =>
        PixelAspect(crop, imgRef) \in
            { rotatedAspect(selectedRatio, rotation),
              loadAspect(selectedRatio, rotation, imgRef.width, imgRef.height) }

UploadFailureTags == {"handleFile:rejected", "reader.onerror", "img.error"}

\* C13: after each failure of the upload/decode path (a file whose type
\* does not start with image/, a FileReader error, an <img> that cannot
\* decode its source) the app is in 'error' with a message and keeps no
\* image URL, image file, live crop or committed crop.  No handler runs
\* after the failure event, so what holds right after it is what holds
\* until the user acts.
C13_UploadFailureIsError ==
    lastAction \in UploadFailureTags =>
        /\ appState = "error"
        /\ error # NoString
        /\ originalImage = NoString
        /\ imageFile = NULL
        /\ crop = NULL
        /\ completedCrop = NULL

\* C14: the live and the committed crop exist only while an image is
\* loaded (appState 'success' and the image ref set); from a reset or an
\* accepted file until the next image load completes (the image ref is
\* unset) both are absent and rotation is 0, also when a smart-crop
\* completion is handled in between.
C14_CropsOnlyWithImage ==
    /\ (crop # NULL \/ completedCrop # NULL) => (appState = "success" /\ imgRef # NULL)
    /\ imgRef = NULL => (crop = NULL /\ completedCrop = NULL /\ rotation = 0)

ReplaceTags == {"onImageLoad", "handleRatioChange", "handleRotate", "handleSmartCrop:applied"}

\* C15: with an image loaded, right after an image load, a ratio change, a
\* rotate or an applied suggestion the live and the committed crop are both
\* set, and the committed crop is the pixel form of the live percent crop:
\* x/100*width, y/100*height, width/100*width, height/100*height.
C15_CommittedIsPixelForm ==
    (lastAction \in ReplaceTags /\ imgRef # NULL) =>
        /\ crop # NULL
        /\ crop.unit = "%"
        /\ completedCrop # NULL
        /\ completedCrop = InPixels(crop, imgRef)

\* a suggestion was applied after a drag had left the two crops apart
C15_Witness ==
    /\ lastAction = "handleSmartCrop:applied"
    /\ imgRef # NULL
    /\ imgRef.width # imgRef.height
    /\ completedCrop = InPixels(crop, imgRef)
    /\ ~RIsZero(crop.y)

\* C16: with an image loaded, the effective aspect for the selected ratio
\* and the rotation is the same at every place that derives it: onImageLoad
\* (loadAspect), updateCropForRatio and handleSmartCrop (rotatedAspect) and
\* the constraint handed to the crop widget (getAspectRatio).
C16_OneEffectiveAspect ==
    imgRef # NULL =>
        /\ loadAspect(selectedRatio, rotation, imgRef.width, imgRef.height)
              = rotatedAspect(selectedRatio, rotation)
        /\ getAspectRatio(imgRef, selectedRatio, rotation)
              = rotatedAspect(selectedRatio, rotation)

\* the smallest width and height the crop widget is configured with (px)
minWidth == 50
minHeight == 50

\* C17: whenever a live crop exists (from image load, ratio change, rotate,
\* an applied suggestion or a drag) it has x >= 0, y >= 0, x+width and
\* y+height within the container, and is at least 50px wide and 50px high.
C17_LiveCropWithinLimits ==
    (crop # NULL /\ imgRef # NULL) =>
        /\ Contained(crop)
        /\ RLe(R(minWidth), InPixels(crop, imgRef).width)
        /\ RLe(R(minHeight), InPixels(crop, imgRef).height)

\* the steps that store a freshly built committed crop
CommitTags == ReplaceTags \cup {"onComplete"}

\* C18: an intermediate drag update (onChange) changes only the live crop:
\* the committed crop, the rotation, the canvas and the rest of the app
\* state stay as they were and the render effect does not run; the render
\* effect runs only in a step that changes the committed crop or the
\* rotation (storing a newly built committed crop is a change for React
\* even when its numbers repeat).
C18_DragChangesLiveOnly ==
    [][ /\ lastAction' = "onChange" =>
              /\ completedCrop' = completedCrop
              /\ rotation' = rotation
              /\ canvas' = canvas
              /\ rendered' = "notrun"
              /\ UNCHANGED << originalImage, imageFile, error, appState,
                              selectedRatio, isSmartCropping, imgRef >>
        /\ rendered' # "notrun" =>
              \/ completedCrop' # completedCrop
              \/ rotation' # rotation
              \/ (lastAction' \in CommitTags /\ completedCrop' # NULL) ]_vars

\* in the middle of a drag: the live crop has left the committed one
C18_Witness ==
    /\ lastAction = "onChange"
    /\ dragging
    /\ completedCrop # NULL
    /\ completedCrop # InPixels(crop, imgRef)
    /\ canvas.drawn # NULL
    /\ rendered = "notrun"

\* the image is displayed at its native aspect
SameScale(img) == img.naturalWidth * img.height = img.naturalHeight * img.width

\* width/height of the rendered output before flooring: the crop in native
\* pixels, with the two sides exchanged for rotation 90 and 270
OutputAspect(cc, rot, img) ==
    IF isRotated(rot) THEN RDiv(NativeHeight(cc, img), NativeWidth(cc, img))
                      ELSE RDiv(NativeWidth(cc, img), NativeHeight(cc, img))

\* C19: with a non-degenerate committed crop and an image displayed at its
\* native aspect, the rendered output's width/height before flooring is
\* the selected ratio's value, for every rotation and whichever of image
\* load, ratio change, rotate, applied suggestion or drag set the crop.
C19_OutputHasSelectedRatio ==
    (Mounted /\ ~Degenerate(completedCrop, imgRef) /\ SameScale(imgRef)) =>
        OutputAspect(completedCrop, rotation, imgRef) = selectedRatio.value

\* C20: a smart-crop result is applied only to the image it was requested
\* for: the completion of a request issued for another file than the one
\* now shown leaves the live and the committed crop as they are.
C20_OnlyForItsImage ==
    [][ \A req \in requests \ requests' :
            req.file # originalImage =>
                (crop' = crop /\ completedCrop' = completedCrop) ]_vars

\* C21: in the basic app the committed crop stored on image load and on
\* ratio change is in pixels of the displayed image, the unit the render
\* effect consumes: it is the pixel form of the live crop, and the canvas of
\* the preview that follows measures the live crop's size in native pixels
\* times the device pixel ratio, as after a drag the widget committed.
C21_CommittedInPixels ==
    (lastAction \in {"onImageLoad", "handleRatioChange"} /\ Mounted) =>
        /\ completedCrop.unit = "px"
        /\ completedCrop = InPixels(crop, imgRef)
        /\ canvas.width = Floor(RMul(NativeWidth(InPixels(crop, imgRef), imgRef),
                                     devicePixelRatio))
        /\ canvas.height = Floor(RMul(NativeHeight(InPixels(crop, imgRef), imgRef),
                                      devicePixelRatio))

====
